---- MODULE Spec2Model ----
(***************************************************************************)
(* Model of the query orchestrator of agentic-rag                          *)
(* (internal/service/rag.go) together with the two collaborators it calls: *)
(* the OpenAI LLM client (internal/infrastructure/llm) and the MongoDB     *)
(* document repository (internal/infrastructure/database).                 *)
(*                                                                         *)
(* One ProcessQuery invocation is followed from its call to its return.    *)
(* A collaborator call is "in flight" between the action that issues it    *)
(* and the action that receives its reply; the clock advances and the      *)
(* caller may cancel its context while a call is in flight.                *)
(*                                                                         *)
(* Representation:                                                         *)
(*   - a Go error is the sequence of its cause chain, outermost first;     *)
(*     nil is the empty sequence;                                          *)
(*   - a Go pointer result is a sequence of length 0 (nil) or 1;           *)
(*   - a Go slice of documents is [isNil, docs], since json.Marshal        *)
(*     distinguishes a nil slice from an empty one;                        *)
(*   - strings are strings, a query of 1000 bytes included;                *)
(*   - time is counted in ticks of 5 seconds.                              *)
(***************************************************************************)
EXTENDS Integers, Sequences, FiniteSets, TLC

VARIABLES
    pc,              \* position of the invocation inside its operation
    req,             \* the request object (validateRequest mutates it)
    ctx,             \* the caller's context
    now,             \* the clock
    start,           \* rag.go:46 start := time.Now()
    messages,        \* rag.go:62 the transcript
    llmResp,         \* rag.go:74 / rag.go:145
    idx,             \* position of the range loop of rag.go:92
    sources,         \* rag.go:80
    searchPerformed, \* rag.go:81
    llmCalls,        \* calls received by the LLM client, with their replies
    searchCalls,     \* calls received by the document repository
    result,          \* what the operation returned
    doc,             \* the document given to AddDocument (Insert mutates it)
    inserts,         \* calls received by the repository's Insert
    health,          \* the HealthCheck invocations, with their probes
    cause,           \* an error under classification, as it was built
    temporary,       \* what IsTemporaryError answered for it
    other            \* the local state of a second ProcessQuery invocation
                     \* on the same orchestrator, while it is not running

vars == <<pc, req, ctx, now, start, messages, llmResp, idx, sources,
          searchPerformed, llmCalls, searchCalls, result,
          doc, inserts, health, cause, temporary, other>>

\* the state that a step of ProcessQuery leaves alone: that of the other
\* operations and that of the other invocation
otherVars == <<doc, inserts, health, cause, temporary, other>>

\* the state that only ProcessQuery touches
queryVars == <<req, start, messages, llmResp, idx, sources, searchPerformed,
               searchCalls>>

----------------------------------------------------------------------------
(* Bounds of the model *)

MaxToolCalls == 2
MaxTime == 2
MaxHealthChecks == 2
MaxWrapDepth == 2
MaxConcToolCalls == 1

(* Configuration: RAGConfig as cmd/api/main.go builds it. The limit is the  *)
(* default of SEARCH_LIMIT; the timeouts are 10 s and 30 s, in ticks of 5 s *)

MaxSearchResults == 5
SearchTimeout == 2
LLMTimeout == 6

----------------------------------------------------------------------------
(* Errors: domain sentinels, and wrapping with fmt.Errorf("...: %w", err) *)

Nil == <<>>

ErrDocumentNotFound == <<"ErrDocumentNotFound">>
ErrDocumentInvalid == <<"ErrDocumentInvalid">>
ErrDocumentExists == <<"ErrDocumentExists">>
ErrQueryEmpty == <<"ErrQueryEmpty">>
ErrQueryTooShort == <<"ErrQueryTooShort">>
ErrQueryTooLong == <<"ErrQueryTooLong">>
ErrRepositoryUnavailable == <<"ErrRepositoryUnavailable">>
ErrRepositoryTimeout == <<"ErrRepositoryTimeout">>
ErrLLMUnavailable == <<"ErrLLMUnavailable">>
ErrLLMTimeout == <<"ErrLLMTimeout">>
ErrLLMQuotaExceeded == <<"ErrLLMQuotaExceeded">>
ErrLLMInvalidResponse == <<"ErrLLMInvalidResponse">>
ErrConfigInvalid == <<"ErrConfigInvalid">>
ErrConfigMissing == <<"ErrConfigMissing">>
ErrInternalServer == <<"ErrInternalServer">>
ErrServiceUnavailable == <<"ErrServiceUnavailable">>

\* the sentinels of the domain package
DomainErrors ==
    {ErrDocumentNotFound, ErrDocumentInvalid, ErrDocumentExists,
     ErrQueryEmpty, ErrQueryTooShort, ErrQueryTooLong,
     ErrRepositoryUnavailable, ErrRepositoryTimeout,
     ErrLLMUnavailable, ErrLLMTimeout, ErrLLMQuotaExceeded,
     ErrLLMInvalidResponse,
     ErrConfigInvalid, ErrConfigMissing,
     ErrInternalServer, ErrServiceUnavailable}

NewValidationError(field) == <<"ValidationError:" \o field>>

Wrap(msg, err) == <<msg>> \o err

\* NewBusinessError(code, message, cause): Unwrap gives the cause
NewBusinessError(code, err) == <<"BusinessError:" \o code>> \o err

\* the comparison err == target, which looks at the outermost error only
ErrorsIs_Shallow(err, target) == Len(err) > 0 /\ err[1] = target[1]

\* errors.Is(err, target) for a sentinel target: some error of the chain is it
ErrorsIs(err, target) == \E i \in 1..Len(err) : err[i] = target[1]

IsTemporaryError(err) ==
    \/ ErrorsIs(err, ErrRepositoryTimeout)
    \/ ErrorsIs(err, ErrLLMTimeout)
    \/ ErrorsIs(err, ErrServiceUnavailable)

----------------------------------------------------------------------------
(* Contexts (package context of the Go library, as rag.go uses it) *)

Background == [hasDeadline |-> FALSE, deadline |-> 0, cancelled |-> FALSE]

\* ctx.Done() is closed: the context was cancelled or its deadline has passed
Done(c, t) == c.cancelled \/ (c.hasDeadline /\ t >= c.deadline)

\* ctx.Err() of a context that is done
CtxErr(c) == IF c.cancelled THEN <<"context.Canceled">>
             ELSE <<"context.DeadlineExceeded">>

\* a timeout taken from the clock alone, as if derived from Background
WithTimeout_Detached(parent, d, t) ==
    [parent EXCEPT !.hasDeadline = TRUE, !.deadline = t + d]

\* context.WithTimeout(parent, d) called at time t: the child never outlives
\* its parent, and an earlier parent deadline is kept
WithTimeout(parent, d, t) ==
    IF parent.hasDeadline /\ parent.deadline < t + d
    THEN parent
    ELSE [parent EXCEPT !.hasDeadline = TRUE, !.deadline = t + d]

\* the context a call in flight observes: cancelling the caller's context
\* cancels every context derived from it
Derived(c) == [c EXCEPT !.cancelled = ctx.cancelled]

DeadlineChoices == {1, 3}

Contexts ==
    {Background} \cup
    {[hasDeadline |-> TRUE, deadline |-> d, cancelled |-> FALSE] :
        d \in DeadlineChoices}

----------------------------------------------------------------------------
(* Requests (domain.RAGRequest) *)

RECURSIVE Repeat(_, _)
Repeat(s, n) ==
    IF n = 0 THEN ""
    ELSE LET h == Repeat(s, n \div 2)
         IN IF n % 2 = 0 THEN h \o h ELSE h \o h \o s

QueryLengths == {0, 1, 2, 3, 1000, 1001}

MaxResultsChoices == {-1, 0, 2}

NilRequest == [isNil |-> TRUE, Query |-> "", MaxResults |-> 0]

Requests ==
    {NilRequest} \cup
    {[isNil |-> FALSE, Query |-> Repeat("q", n), MaxResults |-> m] :
        n \in QueryLengths, m \in MaxResultsChoices}

\* validateRequest with the upper limit off by one (>= 1000)
validateRequest_LongOffByOne(r) ==
    IF r.isNil
    THEN [err |-> NewValidationError("request"), req |-> r]
    ELSE IF r.Query = ""
    THEN [err |-> ErrQueryEmpty, req |-> r]
    ELSE IF Len(r.Query) < 3
    THEN [err |-> ErrQueryTooShort, req |-> r]
    ELSE IF Len(r.Query) >= 1000
    THEN [err |-> ErrQueryTooLong, req |-> r]
    ELSE IF r.MaxResults <= 0
    THEN [err |-> Nil, req |-> [r EXCEPT !.MaxResults = MaxSearchResults]]
    ELSE [err |-> Nil, req |-> r]

\* validateRequest with the lower limit off by one (< 2)
validateRequest_ShortOffByOne(r) ==
    IF r.isNil
    THEN [err |-> NewValidationError("request"), req |-> r]
    ELSE IF r.Query = ""
    THEN [err |-> ErrQueryEmpty, req |-> r]
    ELSE IF Len(r.Query) < 2
    THEN [err |-> ErrQueryTooShort, req |-> r]
    ELSE IF Len(r.Query) > 1000
    THEN [err |-> ErrQueryTooLong, req |-> r]
    ELSE IF r.MaxResults <= 0
    THEN [err |-> Nil, req |-> [r EXCEPT !.MaxResults = MaxSearchResults]]
    ELSE [err |-> Nil, req |-> r]

\* validateRequest leaving a non-positive MaxResults as it is
validateRequest_NoDefault(r) ==
    IF r.isNil
    THEN [err |-> NewValidationError("request"), req |-> r]
    ELSE IF r.Query = ""
    THEN [err |-> ErrQueryEmpty, req |-> r]
    ELSE IF Len(r.Query) < 3
    THEN [err |-> ErrQueryTooShort, req |-> r]
    ELSE IF Len(r.Query) > 1000
    THEN [err |-> ErrQueryTooLong, req |-> r]
    ELSE [err |-> Nil, req |-> r]

\* validateRequest with the default applied before the checks of the query
validateRequest_DefaultFirst(r) ==
    LET d == IF r.MaxResults <= 0
             THEN [r EXCEPT !.MaxResults = MaxSearchResults]
             ELSE r
    IN IF r.isNil
       THEN [err |-> NewValidationError("request"), req |-> r]
       ELSE IF r.Query = ""
       THEN [err |-> ErrQueryEmpty, req |-> d]
       ELSE IF Len(r.Query) < 3
       THEN [err |-> ErrQueryTooShort, req |-> d]
       ELSE IF Len(r.Query) > 1000
       THEN [err |-> ErrQueryTooLong, req |-> d]
       ELSE [err |-> Nil, req |-> d]

\* validateRequest returns the error and the request as it leaves it
validateRequest(r) ==
    IF r.isNil
    THEN [err |-> NewValidationError("request"), req |-> r]
    ELSE IF r.Query = ""
    THEN [err |-> ErrQueryEmpty, req |-> r]
    ELSE IF Len(r.Query) < 3
    THEN [err |-> ErrQueryTooShort, req |-> r]
    ELSE IF Len(r.Query) > 1000
    THEN [err |-> ErrQueryTooLong, req |-> r]
    ELSE IF r.MaxResults <= 0
    THEN [err |-> Nil, req |-> [r EXCEPT !.MaxResults = MaxSearchResults]]
    ELSE [err |-> Nil, req |-> r]

----------------------------------------------------------------------------
(* The LLM client (OpenAIClient) and what the upstream API may answer *)

SearchToolName == "search_metadata"

CreateSearchTool ==
    [Name |-> SearchToolName,
     Description |-> "Search metadata in database or API from a query",
     Parameters |-> [type |-> "object",
                     properties |-> [query |-> [type |-> "string"]],
                     required |-> <<"query">>]]

ArgsGolang == "{\"query\":\"golang\"}"
ArgsRust == "{\"query\":\"rust\"}"
ArgsEmptyQuery == "{\"query\":\"\"}"
ArgsNoQuery == "{}"
ArgsNumberQuery == "{\"query\":5}"
ArgsNotJSON == "golang"

\* json.Unmarshal into a map[string]interface{}: the error, and the value
\* found under "query" (any other text is not a JSON object)
ParseToolArguments(arguments) ==
    LET noValue == [present |-> FALSE, isString |-> FALSE, str |-> ""]
        parsed(v) == [err |-> Nil, query |-> v]
    IN CASE arguments = ArgsGolang ->
                parsed([present |-> TRUE, isString |-> TRUE, str |-> "golang"])
         [] arguments = ArgsRust ->
                parsed([present |-> TRUE, isString |-> TRUE, str |-> "rust"])
         [] arguments = ArgsEmptyQuery ->
                parsed([present |-> TRUE, isString |-> TRUE, str |-> ""])
         [] arguments = ArgsNumberQuery ->
                parsed([present |-> TRUE, isString |-> FALSE, str |-> ""])
         [] arguments = ArgsNoQuery -> parsed(noValue)
         [] OTHER ->
                [err |-> Wrap("erro ao fazer parse dos argumentos",
                              <<"json.SyntaxError">>),
                 query |-> noValue]

\* query, ok := args["query"].(string)
QueryArgument(args) ==
    [ok |-> args.query.present /\ args.query.isString,
     query |-> IF args.query.present /\ args.query.isString
               THEN args.query.str ELSE ""]

ToolCallChoices ==
    {[ID |-> "call_1", Name |-> SearchToolName, Arguments |-> ArgsGolang],
     [ID |-> "",       Name |-> SearchToolName, Arguments |-> ArgsRust],
     [ID |-> "call_2", Name |-> SearchToolName, Arguments |-> ArgsEmptyQuery],
     [ID |-> "call_2", Name |-> SearchToolName, Arguments |-> ArgsNoQuery],
     [ID |-> "call_2", Name |-> SearchToolName, Arguments |-> ArgsNumberQuery],
     [ID |-> "call_2", Name |-> SearchToolName, Arguments |-> ArgsNotJSON],
     [ID |-> "call_3", Name |-> "get_weather",  Arguments |-> ArgsGolang]}

ToolCallSeqs ==
    UNION {[1..n -> ToolCallChoices] : n \in 0..MaxToolCalls}

\* what CreateChatCompletion may return: an error, or a response with its
\* choices (only the first is read), usage and model
UpstreamErrors == {<<"openai.APIError">>}

UpstreamResponses(round) ==
    IF round = 1
    THEN {[Choices |-> <<>>, TotalTokens |-> 0, Model |-> "gpt-4"]} \cup
         {[Choices |-> <<[Content |-> c, ToolCalls |-> tcs]>>,
           TotalTokens |-> 10, Model |-> "gpt-4"] :
             c \in {"", "answer-1"}, tcs \in ToolCallSeqs}
    ELSE {[Choices |-> <<>>, TotalTokens |-> 0, Model |-> "gpt-4o"],
          [Choices |-> <<[Content |-> "answer-2", ToolCalls |-> <<>>]>>,
           TotalTokens |-> 25, Model |-> "gpt-4o"]}

\* OpenAIClient.GenerateResponse, from the upstream outcome to its result
GenerateResponse(upErr, upResp) ==
    IF upErr # Nil
    THEN [resp |-> <<>>, err |-> Wrap("erro na chamada OpenAI", upErr)]
    ELSE IF Len(upResp.Choices) = 0
    THEN [resp |-> <<>>, err |-> ErrLLMInvalidResponse]
    ELSE [resp |-> <<[Content |-> upResp.Choices[1].Content,
                      ToolCalls |-> upResp.Choices[1].ToolCalls,
                      TokensUsed |-> upResp.TotalTokens,
                      Model |-> upResp.Model]>>,
          err |-> Nil]

\* GenerateResponse, part_003:33-46: a message as it is sent upstream; the
\* tool name and the tool-call id are copied only when both are non-empty
OpenAIMessage(m) ==
    IF m.ToolCall # "" /\ m.ToolID # ""
    THEN [Role |-> m.Role, Content |-> m.Content,
          Name |-> m.ToolCall, ToolCallID |-> m.ToolID]
    ELSE [Role |-> m.Role, Content |-> m.Content,
          Name |-> "", ToolCallID |-> ""]

\* GenerateResponse, part_003:57-67: a declared tool as it is sent upstream
OpenAITool(tool) ==
    [Type |-> "function",
     Function |-> [Name |-> tool.Name, Description |-> tool.Description,
                   Parameters |-> tool.Parameters]]

\* GenerateResponse, part_003:48-69: the request sent upstream; Tools stays
\* empty when no tool is given
ChatCompletionRequest(msgs, tools) ==
    [Messages |-> [i \in 1..Len(msgs) |-> OpenAIMessage(msgs[i])],
     Tools |-> IF Len(tools) > 0
               THEN [i \in 1..Len(tools) |-> OpenAITool(tools[i])]
               ELSE <<>>]

----------------------------------------------------------------------------
(* The document repository (MongoDocumentRepository) *)

NilSlice == [isNil |-> TRUE, docs |-> <<>>]
EmptySlice == [isNil |-> FALSE, docs |-> <<>>]
Slice(ds) == [isNil |-> FALSE, docs |-> ds]

\* the documents of the collection that match a query, best score first
Collection(query) == <<query \o "-1">>

\* what the cursor may yield for a query: any prefix of its matches
Ranked(query) ==
    {SubSeq(Collection(query), 1, n) : n \in 0..Len(Collection(query))}

DriverErrors == {<<"mongo.ServerError">>}

\* Search: a driver error is wrapped; the results are appended to a nil
\* slice; the cursor yields at most |limit| documents, all of them when the
\* limit is 0
Search(query, limit, findErr, found) ==
    IF query = ""
    THEN [docs |-> NilSlice, err |-> ErrQueryEmpty]
    ELSE IF findErr # Nil
    THEN [docs |-> NilSlice, err |-> Wrap("erro ao buscar documentos", findErr)]
    ELSE LET cap == IF limit < 0 THEN 0 - limit ELSE limit
             n == IF cap > 0 /\ cap < Len(found) THEN cap ELSE Len(found)
         IN [docs |-> IF n = 0 THEN NilSlice ELSE Slice(SubSeq(found, 1, n)),
             err |-> Nil]

\* json.Marshal of a slice of documents: null for a nil slice, an array
\* otherwise
RECURSIVE Join(_)
Join(ds) ==
    IF Len(ds) = 0 THEN ""
    ELSE IF Len(ds) = 1 THEN ds[1]
    ELSE ds[1] \o "," \o Join(Tail(ds))

Marshal(s) == IF s.isNil THEN "null" ELSE "[" \o Join(s.docs) \o "]"

----------------------------------------------------------------------------
(* Documents (domain.Document) and their validation *)

TitleLengths == {0, 1, 200, 201, 250}
ContentLengths == {0, 1, 10000, 10001}

\* a nil *Document
NilDocument ==
    [isNil |-> TRUE, ID |-> "", Title |-> "", Content |-> "",
     CreatedAt |-> <<>>, UpdatedAt |-> <<>>]

\* a document literal has zero timestamps (the empty sequence); NewDocument
\* stamps it with the time of its creation
Documents ==
    {NilDocument} \cup
    {[isNil |-> FALSE, ID |-> "", Title |-> Repeat("t", n),
      Content |-> Repeat("c", m), CreatedAt |-> t, UpdatedAt |-> t] :
        n \in TitleLengths, m \in ContentLengths, t \in {<<>>, <<0>>}}

\* validateDocument with no upper limit on the content
validateDocument_NoContentLimit(d) ==
    IF d.Title = "" THEN NewValidationError("title")
    ELSE IF d.Content = "" THEN NewValidationError("content")
    ELSE IF Len(d.Title) > 200 THEN NewValidationError("title")
    ELSE Nil

\* validateDocument, rag.go:271-289
validateDocument(d) ==
    IF d.Title = "" THEN NewValidationError("title")
    ELSE IF d.Content = "" THEN NewValidationError("content")
    ELSE IF Len(d.Title) > 200 THEN NewValidationError("title")
    ELSE IF Len(d.Content) > 10000 THEN NewValidationError("content")
    ELSE Nil

----------------------------------------------------------------------------
(* Errors as callers of IsTemporaryError meet them: an innermost error under *)
(* layers of wrapping, each a fmt.Errorf with %w or a BusinessError          *)

\* the error under classification before any is chosen
NoCause == [kind |-> Nil, wraps |-> <<>>]

InnermostErrors ==
    DomainErrors \cup
    {Nil, NewValidationError("title"), <<"context.DeadlineExceeded">>,
     <<"openai.APIError">>}

WrapLayers == {"fmt.Errorf", "BusinessError"}

WrapSeqs == UNION {[1..n -> WrapLayers] : n \in 0..MaxWrapDepth}

Causes == {[kind |-> k, wraps |-> w] : k \in InnermostErrors, w \in WrapSeqs}

\* the error built from its innermost error and its layers, outermost first
RECURSIVE Chain(_, _)
Chain(kind, wraps) ==
    IF wraps = <<>> THEN kind
    ELSE IF Head(wraps) = "BusinessError"
    THEN NewBusinessError("LLM_ERROR", Chain(kind, Tail(wraps)))
    ELSE Wrap("erro ao gerar resposta", Chain(kind, Tail(wraps)))

----------------------------------------------------------------------------
(* The state machine of one ProcessQuery invocation *)

NoResult == [returned |-> FALSE, resp |-> <<>>, err |-> Nil]

\* the local state of an invocation of ProcessQuery on a request, before
\* its first step
Invocation(r, c) ==
    [pc |-> "idle", req |-> r, ctx |-> c, start |-> 0, messages |-> <<>>,
     llmResp |-> <<>>, idx |-> 0, sources |-> NilSlice,
     searchPerformed |-> FALSE, llmCalls |-> <<>>, searchCalls |-> <<>>,
     result |-> NoResult]

\* no second invocation
NoInvocation == Invocation(NilRequest, Background)

\* the state of AddDocument, HealthCheck and IsTemporaryError when the
\* operation followed is another one
OthersUnused ==
    /\ doc = NilDocument
    /\ inserts = <<>>
    /\ health = <<>>
    /\ cause = NoCause
    /\ temporary = FALSE
    /\ other = NoInvocation

\* the state of ProcessQuery when the operation followed is another one
QueryUnused ==
    /\ req = NilRequest
    /\ start = 0
    /\ messages = <<>>
    /\ llmResp = <<>>
    /\ idx = 0
    /\ sources = NilSlice
    /\ searchPerformed = FALSE
    /\ searchCalls = <<>>
    /\ other = NoInvocation

Init ==
    /\ pc = "idle"
    /\ req \in Requests
    /\ ctx \in Contexts
    /\ now = 0
    /\ start = 0
    /\ messages = <<>>
    /\ llmResp = <<>>
    /\ idx = 0
    /\ sources = NilSlice
    /\ searchPerformed = FALSE
    /\ llmCalls = <<>>
    /\ searchCalls = <<>>
    /\ result = NoResult
    /\ OthersUnused

Message(role, content, toolCall, toolID) ==
    [Role |-> role, Content |-> content, ToolCall |-> toolCall,
     ToolID |-> toolID, Timestamp |-> now]

\* a call as the LLM client receives it
LLMCall(msgs, tools) ==
    [messages |-> msgs, tools |-> tools, ctx |-> ctx, at |-> now,
     returned |-> FALSE, resp |-> <<>>, err |-> Nil]

\* ProcessQuery, lines 45-74: validation, the initial transcript, and the
\* round-1 call to the LLM client
ProcessQuery ==
    /\ UNCHANGED otherVars
    /\ pc = "idle"
    /\ LET v == validateRequest(req)
       IN /\ req' = v.req
          /\ start' = now
          /\ IF v.err # Nil
             THEN /\ pc' = "done"
                  /\ result' = [returned |-> TRUE, resp |-> <<>>, err |-> v.err]
                  /\ UNCHANGED <<messages, llmCalls>>
             ELSE /\ pc' = "round1"
                  /\ messages' = <<Message("user", v.req.Query, "", "")>>
                  /\ llmCalls' =
                        <<LLMCall(messages', <<CreateSearchTool>>)>>
                  /\ UNCHANGED result
    /\ UNCHANGED <<ctx, now, llmResp, idx, sources, searchPerformed,
                   searchCalls>>

\* the reply of the LLM client to the call in flight: once the context of
\* the call is done the upstream request is aborted with the context's error
LLMReplies(round) ==
    LET c == Derived(llmCalls[Len(llmCalls)].ctx)
    IN IF Done(c, now)
       THEN {GenerateResponse(CtxErr(c), <<>>)}
       ELSE {GenerateResponse(e, <<>>) : e \in UpstreamErrors} \cup
            {GenerateResponse(Nil, r) : r \in UpstreamResponses(round)}

Reply(calls, r) ==
    [calls EXCEPT ![Len(calls)] =
        [@ EXCEPT !.returned = TRUE, !.resp = r.resp, !.err = r.err]]

\* the response of round 2 merged with that of round 1: the token counts
\* are added up and the model of round 1 is kept
Response_Summed(lr) ==
    [Answer |-> lr.Content,
     Sources |-> sources,
     Query |-> req.Query,
     ProcessingTime |-> now - start,
     SearchPerformed |-> searchPerformed,
     Model |-> IF pc = "round2" THEN llmResp[1].Model ELSE lr.Model,
     TokensUsed |-> IF pc = "round2"
                    THEN llmResp[1].TokensUsed + lr.TokensUsed
                    ELSE lr.TokensUsed]

\* rag.go:148-166
Response(lr) ==
    [Answer |-> lr.Content,
     Sources |-> sources,
     Query |-> req.Query,
     ProcessingTime |-> now - start,
     SearchPerformed |-> searchPerformed,
     Model |-> lr.Model,
     TokensUsed |-> lr.TokensUsed]

\* the type assertion of rag.go:103 with its ok result dropped: a missing or
\* non-string query is searched as the empty string
Dispatch_ZeroValue(tc) ==
    LET args == ParseToolArguments(tc.Arguments)
        q == QueryArgument(args)
    IN IF tc.Name # SearchToolName THEN [kind |-> "ignored", query |-> ""]
       ELSE IF args.err # Nil THEN [kind |-> "skipped", query |-> ""]
       ELSE [kind |-> "search", query |-> q.query]

\* rag.go:93-107 for one tool call: "ignored" (another tool's name),
\* "skipped" (arguments that do not parse, or no string under "query"),
\* or "search" with the query extracted
Dispatch(tc) ==
    LET args == ParseToolArguments(tc.Arguments)
        q == QueryArgument(args)
    IN IF tc.Name # SearchToolName THEN [kind |-> "ignored", query |-> ""]
       ELSE IF args.err # Nil THEN [kind |-> "skipped", query |-> ""]
       ELSE IF ~q.ok THEN [kind |-> "skipped", query |-> ""]
       ELSE [kind |-> "search", query |-> q.query]

\* the tool calls the range loop of rag.go:92 goes through
ToolCalls == llmResp[1].ToolCalls

\* the test of rag.go:84 always taken
HasToolCalls_Always(lr) == Len(lr.ToolCalls) >= 0

\* rag.go:84: if len(llmResp.ToolCalls) > 0
HasToolCalls(lr) == Len(lr.ToolCalls) > 0

\* searchPerformed set by a tool call of any name
MarksSearch_AnyTool(tc) == tc.Name # ""

\* searchPerformed set only once the arguments have given a query
MarksSearch_AfterParse(tc) == Dispatch(tc).kind = "search"

\* rag.go:93-94: a tool call of the search tool sets searchPerformed
MarksSearch(tc) == tc.Name = SearchToolName

\* the limit passed on as it was given
SearchLimit_Verbatim(limit) == limit

\* the request's limit ignored for the configured one
SearchLimit_ConfigOnly(limit) == MaxSearchResults

\* rag.go:175-177: a non-positive limit is replaced by the configured one
SearchLimit(limit) == IF limit <= 0 THEN MaxSearchResults ELSE limit

\* a failed search leaving the sources of the earlier calls in place
Fallback_KeepSources(docs, err) == IF err # Nil THEN sources ELSE docs

\* rag.go:113-116: a failed search is replaced by an empty result set
Fallback(docs, err) == IF err # Nil THEN EmptySlice ELSE docs

\* the failure formatted with %v: the message is kept, the cause chain is not
Round1Failure_Flattened(err) ==
    [returned |-> TRUE, resp |-> <<>>, err |-> <<"erro ao gerar resposta">>]

\* rag.go:75-78 and 140-143: an LLM failure is returned wrapped, with no
\* response
Round1Failure(err) ==
    [returned |-> TRUE, resp |-> <<>>,
     err |-> Wrap("erro ao gerar resposta", err)]

\* a round-2 failure returned together with a response built from round 1
Round2Failure_Partial(err) ==
    [returned |-> TRUE, resp |-> <<Response(llmResp[1])>>,
     err |-> Wrap("erro ao gerar resposta final", err)]

Round2Failure(err) ==
    [returned |-> TRUE, resp |-> <<>>,
     err |-> Wrap("erro ao gerar resposta final", err)]

\* ProcessQuery, lines 74-90 and 148-166: round 1 returns
Round1Return ==
    /\ UNCHANGED otherVars
    /\ pc = "round1"
    /\ \E r \in LLMReplies(1) :
          /\ llmCalls' = Reply(llmCalls, r)
          /\ IF r.err # Nil
             THEN /\ pc' = "done"
                  /\ result' = Round1Failure(r.err)
                  /\ UNCHANGED <<messages, llmResp, idx>>
             ELSE /\ llmResp' = r.resp
                  /\ IF HasToolCalls(r.resp[1])
                     THEN /\ messages' = Append(messages,
                                 Message("assistant", r.resp[1].Content, "", ""))
                          /\ idx' = 1
                          /\ pc' = "tools"
                          /\ UNCHANGED result
                     ELSE /\ pc' = "done"
                          /\ result' = [returned |-> TRUE,
                                        resp |-> <<Response(r.resp[1])>>,
                                        err |-> Nil]
                          /\ UNCHANGED <<messages, idx>>
    /\ UNCHANGED <<req, ctx, now, start, sources, searchPerformed,
                   searchCalls>>

\* the tool message appended without the id of the call it answers
Record_Anonymous(tc, searchResults) ==
    /\ sources' = searchResults
    /\ messages' = Append(messages,
            Message("tool", Marshal(searchResults), tc.Name, ""))

\* the tool message written over the last message of the transcript
Record_ReplacingLast(tc, searchResults) ==
    /\ sources' = searchResults
    /\ messages' = [messages EXCEPT ![Len(messages)] =
            Message("tool", Marshal(searchResults), tc.Name, tc.ID)]

\* the result set appended to the sources of the earlier tool calls
Record_Accumulating(tc, searchResults) ==
    /\ sources' = [isNil |-> sources.isNil /\ searchResults.isNil,
                   docs |-> sources.docs \o searchResults.docs]
    /\ messages' = Append(messages,
            Message("tool", Marshal(searchResults), tc.Name, tc.ID))

\* rag.go:118-134: the result set becomes the sources and is appended to
\* the transcript as a tool message
Record(tc, searchResults) ==
    /\ sources' = searchResults
    /\ messages' = Append(messages,
            Message("tool", Marshal(searchResults), tc.Name, tc.ID))

\* a search of the empty query passed over like a skipped call: nothing is
\* recorded for it
ToolCallLocal_EmptyQuerySkipped ==
    /\ UNCHANGED otherVars
    /\ pc = "tools"
    /\ idx <= Len(ToolCalls)
    /\ LET tc == ToolCalls[idx]
           d == Dispatch(tc)
       IN /\ d.kind = "search" => d.query = ""
          /\ searchPerformed' = (searchPerformed \/ MarksSearch(tc))
    /\ idx' = idx + 1
    /\ UNCHANGED <<pc, req, ctx, now, start, llmResp, llmCalls,
                   searchCalls, result, sources, messages>>

\* one iteration of the loop that makes no call to the repository: a tool
\* call that is ignored or skipped, or a search of the empty query, which
\* SearchDocuments (rag.go:171) refuses with ErrQueryEmpty
ToolCallLocal ==
    /\ UNCHANGED otherVars
    /\ pc = "tools"
    /\ idx <= Len(ToolCalls)
    /\ LET tc == ToolCalls[idx]
           d == Dispatch(tc)
       IN /\ d.kind = "search" => d.query = ""
          /\ searchPerformed' = (searchPerformed \/ MarksSearch(tc))
          /\ IF d.kind = "search"
             THEN Record(tc, Fallback(NilSlice, ErrQueryEmpty))
             ELSE UNCHANGED <<sources, messages>>
    /\ idx' = idx + 1
    /\ UNCHANGED <<pc, req, ctx, now, start, llmResp, llmCalls,
                   searchCalls, result>>

\* the search started without waiting for its result: the loop goes on to
\* the next tool call while the repository is still working
SearchDocuments_Async ==
    /\ UNCHANGED otherVars
    /\ pc = "tools"
    /\ idx <= Len(ToolCalls)
    /\ LET tc == ToolCalls[idx]
           d == Dispatch(tc)
       IN /\ d.kind = "search"
          /\ d.query # ""
          /\ searchCalls' = Append(searchCalls,
                [query |-> d.query, limit |-> SearchLimit(req.MaxResults),
                 ctx |-> WithTimeout(ctx, SearchTimeout, now), at |-> now,
                 toolCall |-> idx,
                 returned |-> FALSE, docs |-> NilSlice, err |-> Nil])
    /\ searchPerformed' = TRUE
    /\ idx' = idx + 1
    /\ UNCHANGED <<pc, req, ctx, now, start, messages, llmResp,
                   sources, llmCalls, result>>

\* SearchDocuments, lines 170-183: the call to the repository is issued
\* under the search timeout
SearchDocuments ==
    /\ UNCHANGED otherVars
    /\ pc = "tools"
    /\ idx <= Len(ToolCalls)
    /\ LET tc == ToolCalls[idx]
           d == Dispatch(tc)
           limit == SearchLimit(req.MaxResults)
       IN /\ d.kind = "search"
          /\ d.query # ""
          /\ searchCalls' = Append(searchCalls,
                [query |-> d.query, limit |-> limit,
                 ctx |-> WithTimeout(ctx, SearchTimeout, now), at |-> now,
                 toolCall |-> idx,
                 returned |-> FALSE, docs |-> NilSlice, err |-> Nil])
    /\ searchPerformed' = TRUE
    /\ pc' = "search"
    /\ UNCHANGED <<req, ctx, now, start, messages, llmResp, idx,
                   sources, llmCalls, result>>

\* the reply of the repository to the call in flight: once the search
\* context is done the driver gives up with the context's error
SearchReplies ==
    LET call == searchCalls[Len(searchCalls)]
        c == Derived(call.ctx)
    IN IF Done(c, now)
       THEN {Search(call.query, call.limit, CtxErr(c), <<>>)}
       ELSE {Search(call.query, call.limit, e, <<>>) : e \in DriverErrors} \cup
            {Search(call.query, call.limit, Nil, f) : f \in Ranked(call.query)}

\* a failed search ending the invocation with the retrieval error
SearchReturn_Abort ==
    /\ UNCHANGED otherVars
    /\ pc = "search"
    /\ \E r \in SearchReplies :
          LET err == IF r.err # Nil
                     THEN Wrap("erro na busca de documentos", r.err)
                     ELSE Nil
          IN /\ searchCalls' = [searchCalls EXCEPT ![Len(searchCalls)] =
                    [@ EXCEPT !.returned = TRUE, !.docs = r.docs,
                              !.err = r.err]]
             /\ IF err # Nil
                THEN /\ result' = [returned |-> TRUE, resp |-> <<>>,
                                   err |-> err]
                     /\ pc' = "done"
                     /\ UNCHANGED <<sources, messages, idx>>
                ELSE /\ Record(ToolCalls[idx], r.docs)
                     /\ idx' = idx + 1
                     /\ pc' = "tools"
                     /\ UNCHANGED result
    /\ UNCHANGED <<req, ctx, now, start, llmResp, searchPerformed, llmCalls>>

\* a failed search tried again: the loop stays on the same tool call
SearchReturn_Retry ==
    /\ UNCHANGED otherVars
    /\ pc = "search"
    /\ \E r \in SearchReplies :
          LET err == IF r.err # Nil
                     THEN Wrap("erro na busca de documentos", r.err)
                     ELSE Nil
          IN /\ searchCalls' = [searchCalls EXCEPT ![Len(searchCalls)] =
                    [@ EXCEPT !.returned = TRUE, !.docs = r.docs,
                              !.err = r.err]]
             /\ IF err # Nil
                THEN UNCHANGED <<sources, messages, idx>>
                ELSE /\ Record(ToolCalls[idx], r.docs)
                     /\ idx' = idx + 1
    /\ pc' = "tools"
    /\ UNCHANGED <<req, ctx, now, start, llmResp, searchPerformed,
                   llmCalls, result>>

\* SearchDocuments, lines 183-198, and ProcessQuery, lines 112-134: the
\* search returns; a failure is replaced by an empty result set
SearchReturn ==
    /\ UNCHANGED otherVars
    /\ pc = "search"
    /\ \E r \in SearchReplies :
          LET err == IF r.err # Nil
                     THEN Wrap("erro na busca de documentos", r.err)
                     ELSE Nil
              searchResults == Fallback(r.docs, err)
          IN /\ searchCalls' = [searchCalls EXCEPT ![Len(searchCalls)] =
                    [@ EXCEPT !.returned = TRUE, !.docs = r.docs,
                              !.err = r.err]]
             /\ Record(ToolCalls[idx], searchResults)
    /\ idx' = idx + 1
    /\ pc' = "tools"
    /\ UNCHANGED <<req, ctx, now, start, llmResp, searchPerformed,
                   llmCalls, result>>

\* round 2 called with the tools of round 1
Round2Call_WithTools ==
    /\ UNCHANGED otherVars
    /\ pc = "tools"
    /\ idx > Len(ToolCalls)
    /\ llmCalls' = Append(llmCalls, LLMCall(messages, <<CreateSearchTool>>))
    /\ pc' = "round2"
    /\ UNCHANGED <<req, ctx, now, start, messages, llmResp, idx,
                   sources, searchPerformed, searchCalls, result>>

\* ProcessQuery, line 139: every tool call was handled, round 2 is called
\* with the transcript and no tools
Round2Call ==
    /\ UNCHANGED otherVars
    /\ pc = "tools"
    /\ idx > Len(ToolCalls)
    /\ llmCalls' = Append(llmCalls, LLMCall(messages, <<>>))
    /\ pc' = "round2"
    /\ UNCHANGED <<req, ctx, now, start, messages, llmResp, idx,
                   sources, searchPerformed, searchCalls, result>>

\* ProcessQuery, lines 139-166: round 2 returns
Round2Return ==
    /\ UNCHANGED otherVars
    /\ pc = "round2"
    /\ \E r \in LLMReplies(2) :
          /\ llmCalls' = Reply(llmCalls, r)
          /\ IF r.err # Nil
             THEN /\ result' = Round2Failure(r.err)
                  /\ UNCHANGED llmResp
             ELSE /\ llmResp' = r.resp
                  /\ result' = [returned |-> TRUE,
                                resp |-> <<Response(r.resp[1])>>,
                                err |-> Nil]
    /\ pc' = "done"
    /\ UNCHANGED <<req, ctx, now, start, messages, idx, sources,
                   searchPerformed, searchCalls>>

InFlight ==
    pc \in {"round1", "search", "round2", "insert", "ping", "probe", "lookup"}

\* the context the call in flight was given
CallContext ==
    IF pc \in {"search", "lookup"} THEN searchCalls[Len(searchCalls)].ctx
    ELSE IF pc = "insert" THEN inserts[Len(inserts)].ctx
    ELSE IF pc = "ping" THEN health[Len(health)].ctx
    ELSE llmCalls[Len(llmCalls)].ctx

\* time passes while a collaborator call is in flight; the clock is followed
\* as long as the call waits under a deadline that is still ahead
Tick ==
    /\ UNCHANGED otherVars
    /\ InFlight
    /\ now < MaxTime
    /\ ~Done(Derived(CallContext), now)
    /\ CallContext.hasDeadline
    /\ now' = now + 1
    /\ UNCHANGED <<pc, req, ctx, start, messages, llmResp, idx,
                   sources, searchPerformed, llmCalls, searchCalls, result>>

\* the caller cancels its context, before the invocation or while one of
\* its collaborator calls is in flight
Cancel ==
    /\ UNCHANGED otherVars
    /\ pc = "idle" \/ InFlight
    /\ ~Done(ctx, now)
    /\ ctx' = [ctx EXCEPT !.cancelled = TRUE]
    /\ UNCHANGED <<pc, req, now, start, messages, llmResp, idx,
                   sources, searchPerformed, llmCalls, searchCalls, result>>

Next ==
    \/ ProcessQuery
    \/ Round1Return
    \/ ToolCallLocal
    \/ SearchDocuments
    \/ SearchReturn
    \/ Round2Call
    \/ Round2Return
    \/ Tick
    \/ Cancel

Spec == Init /\ [][Next]_vars

\* the invocation under the assumptions that every call to a collaborator
\* returns and that the goroutine running ProcessQuery keeps running
Fairness ==
    /\ WF_vars(Round1Return)
    /\ WF_vars(ToolCallLocal)
    /\ WF_vars(SearchDocuments)
    /\ WF_vars(SearchReturn)
    /\ WF_vars(Round2Call)
    /\ WF_vars(Round2Return)

LiveSpec == Spec /\ Fairness

----------------------------------------------------------------------------
(* The orchestrator as its callers see it: ProcessQuery on a request, or    *)
(* SearchDocuments called directly with a query and a limit of the caller's *)
(* choice (both are methods of the RAGService interface).                   *)

DirectQueries == {"", "golang"}

DirectLimits == {-1, 0, 3}

\* SearchDocuments, rag.go:170-183, called by the caller itself: the empty
\* query is refused, a non-positive limit is replaced, and the repository
\* is called under the search timeout
DirectSearch ==
    /\ UNCHANGED otherVars
    /\ pc = "idle"
    /\ \E query \in DirectQueries, limit \in DirectLimits :
          IF query = ""
          THEN /\ result' = [returned |-> TRUE, resp |-> <<>>,
                             err |-> ErrQueryEmpty]
               /\ pc' = "done"
               /\ UNCHANGED searchCalls
          ELSE /\ searchCalls' = Append(searchCalls,
                     [query |-> query, limit |-> SearchLimit(limit),
                      ctx |-> WithTimeout(ctx, SearchTimeout, now),
                      at |-> now, toolCall |-> 0,
                      returned |-> FALSE, docs |-> NilSlice, err |-> Nil])
               /\ pc' = "lookup"
               /\ UNCHANGED result
    /\ UNCHANGED <<req, ctx, now, start, messages, llmResp, idx, sources,
                   searchPerformed, llmCalls>>

\* SearchDocuments, rag.go:183-198: the repository answers the direct call;
\* a failure is returned wrapped, with no documents
DirectSearchReturn ==
    /\ UNCHANGED otherVars
    /\ pc = "lookup"
    /\ \E r \in SearchReplies :
          /\ searchCalls' = [searchCalls EXCEPT ![Len(searchCalls)] =
                 [@ EXCEPT !.returned = TRUE, !.docs = r.docs, !.err = r.err]]
          /\ result' =
                 IF r.err # Nil
                 THEN [returned |-> TRUE, resp |-> <<>>,
                       err |-> Wrap("erro na busca de documentos", r.err)]
                 ELSE [returned |-> TRUE, resp |-> <<r.docs>>, err |-> Nil]
    /\ pc' = "done"
    /\ UNCHANGED <<req, ctx, now, start, messages, llmResp, idx, sources,
                   searchPerformed, llmCalls>>

ServiceNext ==
    \/ Next
    \/ DirectSearch
    \/ DirectSearchReturn

ServiceSpec == Init /\ [][ServiceNext]_vars

----------------------------------------------------------------------------
(* Two ProcessQuery invocations on the same orchestrator, each in its own   *)
(* goroutine. The variables above hold the local state of the invocation    *)
(* that is running; the scheduler may switch to the other one at any point. *)
(* RAGServiceImpl (rag.go:15-20) has the collaborators, the logger and the  *)
(* configuration as its only fields, and ProcessQuery assigns none of them: *)
(* everything it writes is a local variable or the request it was given.    *)

\* the local state of the running invocation
Running ==
    [pc |-> pc, req |-> req, ctx |-> ctx, start |-> start,
     messages |-> messages, llmResp |-> llmResp, idx |-> idx,
     sources |-> sources, searchPerformed |-> searchPerformed,
     llmCalls |-> llmCalls, searchCalls |-> searchCalls, result |-> result]

\* the sources kept in the orchestrator instead of a local variable: the
\* two invocations read and write the same slice
Switch_SharedSources ==
    /\ other' = Running
    /\ pc' = other.pc
    /\ req' = other.req
    /\ ctx' = other.ctx
    /\ start' = other.start
    /\ messages' = other.messages
    /\ llmResp' = other.llmResp
    /\ idx' = other.idx
    /\ searchPerformed' = other.searchPerformed
    /\ llmCalls' = other.llmCalls
    /\ searchCalls' = other.searchCalls
    /\ result' = other.result
    /\ UNCHANGED <<sources, now, doc, inserts, health, cause, temporary>>

\* the scheduler suspends the running invocation and resumes the other one
\* where it was: every variable of ProcessQuery (rag.go:46-146) is local to
\* its invocation
Switch ==
    /\ other' = Running
    /\ pc' = other.pc
    /\ req' = other.req
    /\ ctx' = other.ctx
    /\ start' = other.start
    /\ messages' = other.messages
    /\ llmResp' = other.llmResp
    /\ idx' = other.idx
    /\ sources' = other.sources
    /\ searchPerformed' = other.searchPerformed
    /\ llmCalls' = other.llmCalls
    /\ searchCalls' = other.searchCalls
    /\ result' = other.result
    /\ UNCHANGED <<now, doc, inserts, health, cause, temporary>>

\* the requests of the two invocations: valid, and distinct objects
ConcRequests == {r \in Requests : ~r.isNil /\ Len(r.Query) \in 3..1000}

ConcInit ==
    /\ pc = "idle"
    /\ req \in ConcRequests
    /\ ctx = Background
    /\ now = 0
    /\ start = 0
    /\ messages = <<>>
    /\ llmResp = <<>>
    /\ idx = 0
    /\ sources = NilSlice
    /\ searchPerformed = FALSE
    /\ llmCalls = <<>>
    /\ searchCalls = <<>>
    /\ result = NoResult
    /\ doc = NilDocument
    /\ inserts = <<>>
    /\ health = <<>>
    /\ cause = NoCause
    /\ temporary = FALSE
    /\ \E r \in ConcRequests :
          /\ r.Query # req.Query
          /\ r.MaxResults # req.MaxResults
          /\ other = Invocation(r, Background)

\* the round-1 answers followed when two invocations run: at most
\* MaxConcToolCalls tool calls, each a search of golang, a search of rust
\* or a search_metadata call with arguments that do not parse
ConcAnswer(lr) ==
    /\ lr.Content = "answer-1"
    /\ Len(lr.ToolCalls) <= MaxConcToolCalls
    /\ \A i \in 1..Len(lr.ToolCalls) :
          /\ lr.ToolCalls[i].Name = SearchToolName
          /\ lr.ToolCalls[i].Arguments \in {ArgsGolang, ArgsRust, ArgsNotJSON}

ConcRound1Return ==
    /\ Round1Return
    /\ llmResp' # <<>> => ConcAnswer(llmResp'[1])

ConcNext ==
    \/ ProcessQuery
    \/ ConcRound1Return
    \/ ToolCallLocal
    \/ SearchDocuments
    \/ SearchReturn
    \/ Round2Call
    \/ Round2Return
    \/ Switch

ConcSpec == ConcInit /\ [][ConcNext]_vars

----------------------------------------------------------------------------
(* AddDocument, followed from its call to its return *)

DocInit ==
    /\ pc = "idle"
    /\ doc \in Documents
    /\ ctx \in Contexts
    /\ now = 0
    /\ llmCalls = <<>>
    /\ result = NoResult
    /\ inserts = <<>>
    /\ health = <<>>
    /\ cause = NoCause
    /\ temporary = FALSE
    /\ QueryUnused

\* Insert, part_002:147-153: zero timestamps are set to the current time
Stamped(d) ==
    [d EXCEPT !.CreatedAt = IF @ = <<>> THEN <<now>> ELSE @,
              !.UpdatedAt = IF @ = <<>> THEN <<now>> ELSE @]

\* AddDocument, rag.go:202-212, and Insert up to its InsertOne: a nil or
\* invalid document is refused, a valid one is sent to the collection
AddDocument ==
    /\ pc = "idle"
    /\ IF doc.isNil
       THEN /\ result' = [returned |-> TRUE, resp |-> <<>>,
                          err |-> ErrDocumentInvalid]
            /\ pc' = "done"
            /\ UNCHANGED <<doc, inserts>>
       ELSE IF validateDocument(doc) # Nil
       THEN /\ result' = [returned |-> TRUE, resp |-> <<>>,
                          err |-> validateDocument(doc)]
            /\ pc' = "done"
            /\ UNCHANGED <<doc, inserts>>
       ELSE /\ doc' = Stamped(doc)
            /\ inserts' = Append(inserts,
                    [doc |-> doc', ctx |-> ctx, at |-> now,
                     returned |-> FALSE, err |-> Nil])
            /\ pc' = "insert"
            /\ UNCHANGED result
    /\ UNCHANGED <<ctx, now, llmCalls, health, cause, temporary, other>>
    /\ UNCHANGED queryVars

\* what InsertOne may answer: the context's error once the context is done,
\* a driver error, or the ObjectID it generated
InsertReplies ==
    LET c == Derived(inserts[Len(inserts)].ctx)
    IN IF Done(c, now)
       THEN {[id |-> "", err |-> CtxErr(c)]}
       ELSE {[id |-> "", err |-> e] : e \in DriverErrors} \cup
            {[id |-> "0123456789abcdef01234567", err |-> Nil]}

\* Insert, part_002:155-165, and AddDocument, rag.go:213-227: the insert
\* returns; the document takes the generated id, a failure is wrapped
InsertReturn ==
    /\ pc = "insert"
    /\ \E r \in InsertReplies :
          /\ inserts' = [inserts EXCEPT ![Len(inserts)] =
                [@ EXCEPT !.returned = TRUE, !.err = r.err]]
          /\ IF r.err # Nil
             THEN /\ result' = [returned |-> TRUE, resp |-> <<>>,
                        err |-> Wrap("erro ao adicionar documento",
                                     Wrap("erro ao inserir documento", r.err))]
                  /\ UNCHANGED doc
             ELSE /\ result' = [returned |-> TRUE, resp |-> <<>>, err |-> Nil]
                  /\ doc' = [doc EXCEPT !.ID = r.id]
    /\ pc' = "done"
    /\ UNCHANGED <<ctx, now, llmCalls, health, cause, temporary, other>>
    /\ UNCHANGED queryVars

DocNext ==
    \/ AddDocument
    \/ InsertReturn
    \/ Tick
    \/ Cancel

DocSpec == DocInit /\ [][DocNext]_vars

----------------------------------------------------------------------------
(* HealthCheck, called any number of times one after the other *)

HealthInit ==
    /\ pc = "idle"
    /\ ctx \in Contexts
    /\ now = 0
    /\ llmCalls = <<>>
    /\ result = NoResult
    /\ health = <<>>
    /\ doc = NilDocument
    /\ inserts = <<>>
    /\ cause = NoCause
    /\ temporary = FALSE
    /\ QueryUnused

NoProbe == [issued |-> FALSE, returned |-> FALSE, err |-> Nil]

\* HealthCheck, rag.go:231-233: the repository is probed first
HealthCheck ==
    /\ pc \in {"idle", "done"}
    /\ Len(health) < MaxHealthChecks
    /\ health' = Append(health,
            [ctx |-> ctx, at |-> now,
             store |-> [issued |-> TRUE, returned |-> FALSE, err |-> Nil],
             llm |-> NoProbe,
             returned |-> FALSE, err |-> Nil])
    /\ result' = NoResult
    /\ pc' = "ping"
    /\ UNCHANGED <<ctx, now, llmCalls, doc, inserts, cause, temporary, other>>
    /\ UNCHANGED queryVars

\* what the repository's HealthCheck (client.Ping, part_002:271-273) may
\* answer
PingErrors == {<<"mongo.ServerSelectionError">>}

PingReplies ==
    LET c == Derived(health[Len(health)].ctx)
    IN IF Done(c, now) THEN {CtxErr(c)} ELSE PingErrors \cup {Nil}

\* a failure of the repository noted and passed over
AfterPing_NoShortCircuit(err) == [failed |-> FALSE, err |-> Nil]

\* rag.go:233-235: a failure of the repository ends the check
AfterPing(err) ==
    IF err # Nil
    THEN [failed |-> TRUE, err |-> Wrap("repositório indisponível", err)]
    ELSE [failed |-> FALSE, err |-> Nil]

\* OpenAIClient.HealthCheck, part_003:112-120: one user message, no tools
HelloMessages == <<Message("user", "Hello", "", "")>>

\* HealthCheck, rag.go:233-238: the repository's probe returns; if it
\* succeeded the LLM client is probed
PingReturn ==
    /\ pc = "ping"
    /\ \E e \in PingReplies :
          LET h == Len(health)
              after == AfterPing(e)
              pinged == [health[h] EXCEPT !.store.returned = TRUE,
                                          !.store.err = e]
          IN IF after.failed
             THEN /\ health' = [health EXCEPT ![h] =
                        [pinged EXCEPT !.returned = TRUE, !.err = after.err]]
                  /\ result' = [returned |-> TRUE, resp |-> <<>>,
                                err |-> after.err]
                  /\ pc' = "done"
                  /\ UNCHANGED llmCalls
             ELSE /\ health' = [health EXCEPT ![h] =
                        [pinged EXCEPT !.llm.issued = TRUE]]
                  /\ llmCalls' = Append(llmCalls, LLMCall(HelloMessages, <<>>))
                  /\ pc' = "probe"
                  /\ UNCHANGED result
    /\ UNCHANGED <<ctx, now, doc, inserts, cause, temporary, other>>
    /\ UNCHANGED queryVars

\* OpenAIClient.HealthCheck, part_003:122-127, and HealthCheck,
\* rag.go:238-242: the LLM client's probe returns
ProbeReturn ==
    /\ pc = "probe"
    /\ \E r \in LLMReplies(0) :
          LET h == Len(health)
              probeErr == IF r.err # Nil
                          THEN Wrap("health check falhou", r.err)
                          ELSE Nil
              err == IF probeErr # Nil
                     THEN Wrap("cliente LLM indisponível", probeErr)
                     ELSE Nil
          IN /\ llmCalls' = Reply(llmCalls, r)
             /\ health' = [health EXCEPT ![h] =
                    [@ EXCEPT !.llm.returned = TRUE, !.llm.err = probeErr,
                              !.returned = TRUE, !.err = err]]
             /\ result' = [returned |-> TRUE, resp |-> <<>>, err |-> err]
    /\ pc' = "done"
    /\ UNCHANGED <<ctx, now, doc, inserts, cause, temporary, other>>
    /\ UNCHANGED queryVars

HealthNext ==
    \/ HealthCheck
    \/ PingReturn
    \/ ProbeReturn
    \/ Tick
    \/ Cancel

HealthSpec == HealthInit /\ [][HealthNext]_vars

----------------------------------------------------------------------------
(* IsTemporaryError applied to an error *)

ErrInit ==
    /\ pc = "idle"
    /\ cause \in Causes
    /\ temporary = FALSE
    /\ ctx = Background
    /\ now = 0
    /\ llmCalls = <<>>
    /\ result = NoResult
    /\ doc = NilDocument
    /\ inserts = <<>>
    /\ health = <<>>
    /\ QueryUnused

\* a caller holds the error and asks whether it is temporary
Classify ==
    /\ pc = "idle"
    /\ result' = [returned |-> TRUE, resp |-> <<>>,
                  err |-> Chain(cause.kind, cause.wraps)]
    /\ temporary' = IsTemporaryError(result'.err)
    /\ pc' = "done"
    /\ UNCHANGED <<ctx, now, llmCalls, doc, inserts, health, cause, other>>
    /\ UNCHANGED queryVars

ErrNext == Classify

ErrSpec == ErrInit /\ [][ErrNext]_vars

----------------------------------------------------------------------------
(* Properties *)

\* ProcessQuery has returned a validation error before any collaborator call
Rejected(err) ==
    /\ pc = "done"
    /\ result.returned
    /\ result.err = err
    /\ result.resp = <<>>
    /\ llmCalls = <<>>
    /\ searchCalls = <<>>

\* round 1 has been called with the transcript and the search tool
ReachedRound1 ==
    /\ Len(llmCalls) >= 1
    /\ llmCalls[1].tools = <<CreateSearchTool>>

\* the LLM client has answered round 1
Round1Answered ==
    /\ Len(llmCalls) >= 1
    /\ llmCalls[1].returned
    /\ llmCalls[1].err = Nil

Round1ToolCalls == llmCalls[1].resp[1].ToolCalls

\* C1: once ProcessQuery has run on a request, it has rejected it before any
\* collaborator call with QueryEmpty if the query is empty, QueryTooShort if
\* its length is 1 or 2, QueryTooLong if its length is above 1000 (no LLM
\* call, no Search, no response), and it has reached round 1 if and only if
\* the length is within 3..1000.
C1_ValidationGate ==
    (pc # "idle" /\ ~req.isNil) =>
        LET n == Len(req.Query)
        IN /\ n = 0 => Rejected(ErrQueryEmpty)
           /\ n \in {1, 2} => Rejected(ErrQueryTooShort)
           /\ n > 1000 => Rejected(ErrQueryTooLong)
           /\ n \in 3..1000 => ReachedRound1
           /\ ReachedRound1 <=> n \in 3..1000

C1_Witness ==
    /\ ~req.isNil
    /\ Len(req.Query) = 1001
    /\ Rejected(ErrQueryTooLong)

\* C2 as stated: every query shorter than 3 characters, the empty one
\* included, is rejected with QueryTooShort and no collaborator call.
C2_ShortIsTooShort ==
    (pc # "idle" /\ ~req.isNil /\ Len(req.Query) < 3) =>
        Rejected(ErrQueryTooShort)

\* C2 amended: a query of length 1 or 2 is rejected with QueryTooShort and
\* the empty query with QueryEmpty, in both cases without any collaborator
\* call.
C2_ShortOrEmpty ==
    (pc # "idle" /\ ~req.isNil /\ Len(req.Query) < 3) =>
        IF Len(req.Query) = 0
        THEN Rejected(ErrQueryEmpty)
        ELSE Rejected(ErrQueryTooShort)

C2_Witness ==
    /\ ~req.isNil
    /\ Len(req.Query) = 2
    /\ Rejected(ErrQueryTooShort)

\* C3: when round 1 answers with zero tool calls, ProcessQuery has returned
\* a response with search_performed = false, no sources and the round-1
\* content as the answer, the repository was never called and the LLM client
\* was called once.
C3_NoToolCalls ==
    (Round1Answered /\ Len(Round1ToolCalls) = 0) =>
        /\ pc = "done"
        /\ result.err = Nil
        /\ Len(result.resp) = 1
        /\ result.resp[1].SearchPerformed = FALSE
        /\ Len(result.resp[1].Sources.docs) = 0
        /\ result.resp[1].Answer = llmCalls[1].resp[1].Content
        /\ searchCalls = <<>>
        /\ Len(llmCalls) = 1

C3_Witness ==
    /\ Round1Answered
    /\ Len(Round1ToolCalls) = 0
    /\ Len(result.resp) = 1
    /\ result.resp[1].Answer = "answer-1"
    /\ Len(req.Query) = 1000

\* ProcessQuery has returned a response
Responded == pc = "done" /\ Len(result.resp) = 1

Round2Answered ==
    /\ Len(llmCalls) = 2
    /\ llmCalls[2].returned
    /\ llmCalls[2].err = Nil

Round1Failed ==
    /\ Len(llmCalls) >= 1
    /\ llmCalls[1].returned
    /\ llmCalls[1].err # Nil

Round2Failed ==
    /\ Len(llmCalls) = 2
    /\ llmCalls[2].returned
    /\ llmCalls[2].err # Nil

\* C4 as stated: a response returned after a round 1 with at least one tool
\* call, of any name, has search_performed = true.
C4_AnyToolCallMarks ==
    (Responded /\ Round1Answered /\ Len(Round1ToolCalls) >= 1) =>
        result.resp[1].SearchPerformed

\* C4 amended: a response returned after a round 1 with at least one tool
\* call named search_metadata, with any arguments, has search_performed =
\* true.
C4_SearchToolCallMarks ==
    (/\ Responded
     /\ Round1Answered
     /\ \E i \in 1..Len(Round1ToolCalls) :
            Round1ToolCalls[i].Name = SearchToolName) =>
        result.resp[1].SearchPerformed

C4_Witness ==
    /\ Responded
    /\ Round1Answered
    /\ Len(Round1ToolCalls) = 1
    /\ Round1ToolCalls[1].Name = SearchToolName
    /\ Round1ToolCalls[1].Arguments = ArgsNotJSON
    /\ result.resp[1].SearchPerformed

\* the query a tool call asks to search: its name is search_metadata and
\* its arguments are a JSON object with a string under "query"
AsksSearch(tc) ==
    /\ tc.Name = SearchToolName
    /\ ParseToolArguments(tc.Arguments).err = Nil
    /\ QueryArgument(ParseToolArguments(tc.Arguments)).ok

AskedQuery(tc) == QueryArgument(ParseToolArguments(tc.Arguments)).query

\* the searches the repository received are those of the given tool calls,
\* in order, each with the request's max-results as the limit
SearchesAre(wanted) ==
    /\ Len(searchCalls) = Len(wanted)
    /\ \A i \in 1..Len(wanted) :
          /\ searchCalls[i].query = AskedQuery(wanted[i])
          /\ searchCalls[i].limit = req.MaxResults
    /\ (Responded /\ Len(wanted) > 0) => result.resp[1].SearchPerformed

\* C5 as stated: once every round-1 tool call is handled, the repository has
\* received exactly one Search per tool call named search_metadata with a
\* string query q, the empty string included, with q and the request's
\* max-results, and the response has search_performed = true.
C5_OneSearchPerStringQuery ==
    (pc \in {"round2", "done"} /\ Round1Answered
        /\ Len(Round1ToolCalls) > 0) =>
        SearchesAre(SelectSeq(Round1ToolCalls, AsksSearch))

\* C5 amended: once every round-1 tool call is handled, the repository has
\* received exactly one Search per tool call named search_metadata with a
\* non-empty string query q, with q and the request's defaulted max-results
\* as the limit, in tool-call order and no other Search, and the response has
\* search_performed = true.
C5_OneSearchPerNonEmptyQuery ==
    (pc \in {"round2", "done"} /\ Round1Answered
        /\ Len(Round1ToolCalls) > 0) =>
        LET AsksNonEmpty(tc) == AsksSearch(tc) /\ AskedQuery(tc) # ""
        IN SearchesAre(SelectSeq(Round1ToolCalls, AsksNonEmpty))

C5_Witness ==
    /\ Responded
    /\ Len(searchCalls) = 2
    /\ searchCalls[1].query = "golang"
    /\ searchCalls[2].query = "rust"
    /\ searchCalls[1].limit = 2
    /\ result.resp[1].SearchPerformed

SearchFailed(i) == searchCalls[i].returned /\ searchCalls[i].err # Nil

\* the response is a success with search_performed = true
DegradedSuccess ==
    /\ pc = "done"
    /\ result.err = Nil
    /\ Len(result.resp) = 1
    /\ result.resp[1].SearchPerformed

\* C6 as stated: if some Search failed and round 2 succeeded, ProcessQuery
\* returns a success with search_performed = true and an empty source list.
C6_FailedSearchEmptiesSources ==
    (Round2Answered /\ \E i \in 1..Len(searchCalls) : SearchFailed(i)) =>
        /\ DegradedSuccess
        /\ Len(result.resp[1].Sources.docs) = 0

\* C6 amended: if some Search failed and round 2 succeeded, ProcessQuery
\* returns a success with search_performed = true, whose source list is
\* empty when the failed Search is the last one issued; whenever a Search
\* failed, an error returned by ProcessQuery is the error of round 2.
C6_LastFailedSearchEmptiesSources ==
    /\ (Round2Answered /\ \E i \in 1..Len(searchCalls) : SearchFailed(i)) =>
            /\ DegradedSuccess
            /\ SearchFailed(Len(searchCalls)) =>
                    /\ Len(result.resp[1].Sources.docs) = 0
                    /\ ~result.resp[1].Sources.isNil
    /\ (pc = "done" /\ result.err # Nil
            /\ \E i \in 1..Len(searchCalls) : SearchFailed(i)) =>
            /\ Round2Failed
            /\ result.err = Wrap("erro ao gerar resposta final",
                                 llmCalls[2].err)

C6_Witness ==
    /\ Round2Answered
    /\ Len(searchCalls) = 2
    /\ ~SearchFailed(1)
    /\ Len(searchCalls[1].docs.docs) > 0
    /\ SearchFailed(2)
    /\ DegradedSuccess
    /\ Len(result.resp[1].Sources.docs) = 0

\* C7: after a failure of the LLM client in round 1 or in round 2,
\* ProcessQuery has returned an error and no response; a round-1 failure is
\* followed by no Search and no second LLM call, a round-2 failure by no
\* third LLM call, and from the failure on no collaborator receives a call
\* and the result does not change.
C7_LLMFailureAborts ==
    /\ [](Round1Failed =>
            /\ pc = "done"
            /\ result.returned /\ result.resp = <<>> /\ result.err # Nil
            /\ Len(llmCalls) = 1
            /\ searchCalls = <<>>)
    /\ [](Round2Failed =>
            /\ pc = "done"
            /\ result.returned /\ result.resp = <<>> /\ result.err # Nil)
    /\ [][(Round1Failed \/ Round2Failed) =>
            UNCHANGED <<llmCalls, searchCalls, result, pc>>]_vars

C7_Witness ==
    /\ Round2Failed
    /\ Len(sources.docs) > 0
    /\ result.returned
    /\ result.resp = <<>>
    /\ result.err # Nil

\* C8: the context given to round 2 has a deadline, no later than LLMTimeout
\* after the round-2 call starts.
C8_Round2UnderLLMTimeout ==
    Len(llmCalls) = 2 =>
        /\ llmCalls[2].ctx.hasDeadline
        /\ llmCalls[2].ctx.deadline <= llmCalls[2].at + LLMTimeout

\* C9: every Search the repository receives runs under a context whose
\* deadline is the earlier of the caller's deadline and the start of the
\* search plus SearchTimeout.
C9_SearchDeadline ==
    \A i \in 1..Len(searchCalls) :
        LET c == searchCalls[i]
            own == c.at + SearchTimeout
        IN /\ c.ctx.hasDeadline
           /\ c.ctx.deadline =
                IF ctx.hasDeadline /\ ctx.deadline < own
                THEN ctx.deadline ELSE own

C9_Witness ==
    /\ Len(searchCalls) >= 1
    /\ ctx.hasDeadline
    /\ searchCalls[1].at < ctx.deadline
    /\ ctx.deadline < searchCalls[1].at + SearchTimeout
    /\ searchCalls[1].ctx.deadline = ctx.deadline

IsContextError(err) ==
    \/ ErrorsIs(err, <<"context.Canceled">>)
    \/ ErrorsIs(err, <<"context.DeadlineExceeded">>)

\* C10: when a call in flight is ended by the caller's context (cancelled or
\* expired), an LLM round makes ProcessQuery fail with an error of the LLM
\* timeout kind, for which the Temporary predicate holds, and a Search is
\* replaced by an empty result set.
C10_CancellationIsTimeoutKind ==
    /\ \A k \in 1..Len(llmCalls) :
          (llmCalls[k].returned /\ IsContextError(llmCalls[k].err)) =>
              /\ pc = "done"
              /\ result.resp = <<>>
              /\ ErrorsIs(result.err, ErrLLMTimeout)
              /\ IsTemporaryError(result.err)
    /\ (pc = "tools" /\ Len(searchCalls) >= 1
            /\ searchCalls[Len(searchCalls)].toolCall = idx - 1
            /\ IsContextError(searchCalls[Len(searchCalls)].err)) =>
          sources = EmptySlice

\* C14: a request that passes validation with max-results <= 0 carries the
\* configured default from the moment round 1 is called, a positive
\* max-results is left as it is, nothing changes the request afterwards, and
\* every Search receives the request's max-results as its limit.
C14_MaxResultsDefaulted ==
    /\ [][(pc = "idle" /\ pc' = "round1") =>
            /\ req'.MaxResults = IF req.MaxResults <= 0
                                 THEN MaxSearchResults
                                 ELSE req.MaxResults
            /\ llmCalls'[1].at = now]_vars
    /\ [][pc # "idle" => req' = req]_vars
    /\ [](\A i \in 1..Len(searchCalls) :
            searchCalls[i].limit = req.MaxResults)

C14_Witness ==
    /\ Len(searchCalls) >= 1
    /\ req.MaxResults = MaxSearchResults
    /\ searchCalls[1].limit = MaxSearchResults
    /\ MaxSearchResults \notin MaxResultsChoices

\* C15: when the LLM client reports an error in round 1 or round 2, the
\* error ProcessQuery returns has the reported error as its cause: unwrapping
\* it once gives the reported error, and it is of a domain kind (LLM
\* unavailable, timeout, quota exceeded, invalid response, or any other) if
\* and only if the reported error is.
C15_LLMCausePreserved ==
    \A k \in 1..Len(llmCalls) :
        (llmCalls[k].returned /\ llmCalls[k].err # Nil) =>
            /\ pc = "done"
            /\ result.resp = <<>>
            /\ Len(result.err) = Len(llmCalls[k].err) + 1
            /\ Tail(result.err) = llmCalls[k].err
            /\ \A kind \in DomainErrors :
                  ErrorsIs(result.err, kind) <=> ErrorsIs(llmCalls[k].err, kind)

C15_Witness ==
    /\ Round1Failed
    /\ llmCalls[1].err = ErrLLMInvalidResponse
    /\ ErrorsIs(result.err, ErrLLMInvalidResponse)
    /\ ~ErrorsIs(result.err, ErrLLMTimeout)

\* every round-1 tool call has been handled and a response was returned
AnsweredAfterTools ==
    /\ Responded
    /\ Round1Answered
    /\ Len(Round1ToolCalls) > 0

\* the last Search that succeeded, 0 when there is none
LastSucceeded ==
    LET ok == {i \in 1..Len(searchCalls) :
                  searchCalls[i].returned /\ searchCalls[i].err = Nil}
    IN IF ok = {} THEN 0 ELSE CHOOSE i \in ok : \A j \in ok : j <= i

\* the last round-1 tool call that asks for a search, 0 when there is none
LastAsking ==
    LET asking == {i \in 1..Len(Round1ToolCalls) :
                      AsksSearch(Round1ToolCalls[i])}
    IN IF asking = {} THEN 0
       ELSE CHOOSE i \in asking : \A j \in asking : j <= i

\* C18 as stated: the sources of the response are exactly the result set of
\* the last tool call whose Search succeeded; a later tool call whose Search
\* fails or that is skipped does not replace them.
C18_LastSuccessfulSearchWins ==
    (AnsweredAfterTools /\ LastSucceeded > 0) =>
        result.resp[1].Sources.docs = searchCalls[LastSucceeded].docs.docs

\* C18 amended: the sources of the response are exactly the result set of
\* the last search_metadata tool call that carries a string query, never a
\* concatenation: the documents its Search returned, or the empty list if
\* its Search failed or its query was empty (nil if no tool call carries a
\* string query). A later tool call that is skipped or is of another tool
\* leaves them as they are.
C18_LastSearchWins ==
    AnsweredAfterTools =>
        result.resp[1].Sources =
            IF LastAsking = 0 THEN NilSlice
            ELSE IF AskedQuery(Round1ToolCalls[LastAsking]) = ""
            THEN EmptySlice
            ELSE LET c == searchCalls[Len(searchCalls)]
                 IN IF c.err # Nil THEN EmptySlice ELSE c.docs

C18_Witness ==
    /\ AnsweredAfterTools
    /\ Len(searchCalls) = 2
    /\ searchCalls[1].docs = Slice(<<"golang-1">>)
    /\ searchCalls[2].docs = Slice(<<"rust-1">>)
    /\ result.resp[1].Sources = Slice(<<"rust-1">>)

\* the calls a collaborator has received and not yet answered
Pending(calls) == {i \in 1..Len(calls) : ~calls[i].returned}

\* C19: the steps of an invocation are strictly sequential. A Search is
\* received only after round 1 has answered; the Searches follow the order
\* of the round-1 tool calls, each received after the one before has
\* returned, so at most one call to a collaborator is in flight at any
\* time; round 2 is called only after every round-1 tool call has been
\* handled and every Search has returned.
C19_StrictlySequential ==
    /\ searchCalls # <<>> => Round1Answered
    /\ Cardinality(Pending(searchCalls)) + Cardinality(Pending(llmCalls)) <= 1
    /\ Pending(searchCalls) \subseteq {Len(searchCalls)}
    /\ \A i \in 1..Len(searchCalls) :
          /\ searchCalls[i].toolCall \in 1..Len(Round1ToolCalls)
          /\ searchCalls[i].at >= llmCalls[1].at
          /\ \A j \in 1..Len(searchCalls) :
                i < j => /\ searchCalls[i].toolCall < searchCalls[j].toolCall
                         /\ searchCalls[i].at <= searchCalls[j].at
    /\ Len(llmCalls) = 2 =>
          /\ Round1Answered
          /\ idx = Len(Round1ToolCalls) + 1
          /\ Pending(searchCalls) = {}
          /\ \A i \in 1..Len(Round1ToolCalls) :
                LET tc == Round1ToolCalls[i]
                IN (AsksSearch(tc) /\ AskedQuery(tc) # "") =>
                      \E k \in 1..Len(searchCalls) :
                          /\ searchCalls[k].toolCall = i
                          /\ searchCalls[k].at <= llmCalls[2].at

C19_Witness ==
    /\ pc = "round2"
    /\ Len(searchCalls) = 2
    /\ searchCalls[1].toolCall = 1
    /\ searchCalls[2].toolCall = 2
    /\ Pending(searchCalls) = {}
    /\ Pending(llmCalls) = {2}

\* a search_metadata tool call whose arguments are not a JSON object, or
\* have no "query", or a "query" that is not a string
Malformed(tc) == tc.Name = SearchToolName /\ ~AsksSearch(tc)

IsToolMessage(m) == m.Role = "tool"

\* C20: a search_metadata tool call with malformed arguments is skipped
\* alone. Once the loop over the round-1 tool calls is over, no Search was
\* issued for a malformed call and the transcript has no tool message for
\* it (its tool messages are those of the well-formed calls, in order),
\* every well-formed call after or before it was processed, round 2 was
\* called, and an error returned by ProcessQuery is the error of round 2.
C20_MalformedCallSkipped ==
    (/\ pc \in {"round2", "done"}
     /\ Round1Answered
     /\ \E i \in 1..Len(Round1ToolCalls) : Malformed(Round1ToolCalls[i])) =>
        LET wellFormed == SelectSeq(Round1ToolCalls, AsksSearch)
            toolMsgs == SelectSeq(messages, IsToolMessage)
        IN /\ \A k \in 1..Len(searchCalls) :
                 ~Malformed(Round1ToolCalls[searchCalls[k].toolCall])
           /\ Len(toolMsgs) = Len(wellFormed)
           /\ \A j \in 1..Len(wellFormed) :
                 /\ toolMsgs[j].ToolID = wellFormed[j].ID
                 /\ toolMsgs[j].ToolCall = wellFormed[j].Name
           /\ \A i \in 1..Len(Round1ToolCalls) :
                 (AsksSearch(Round1ToolCalls[i])
                    /\ AskedQuery(Round1ToolCalls[i]) # "") =>
                     \E k \in 1..Len(searchCalls) :
                         /\ searchCalls[k].toolCall = i
                         /\ searchCalls[k].query =
                                AskedQuery(Round1ToolCalls[i])
           /\ Len(llmCalls) = 2
           /\ llmCalls[2].messages = messages
           /\ (pc = "done" /\ result.err # Nil) => Round2Failed

C20_Witness ==
    /\ Responded
    /\ Round1Answered
    /\ Len(Round1ToolCalls) = 2
    /\ Round1ToolCalls[1].Arguments = ArgsNotJSON
    /\ Round1ToolCalls[2].Arguments = ArgsGolang
    /\ Len(searchCalls) = 1
    /\ searchCalls[1].toolCall = 2
    /\ Len(SelectSeq(messages, IsToolMessage)) = 1
    /\ Round2Answered

\* C17: an invocation that has started ends, with a response or with an
\* error and never both, as long as every collaborator call returns. The
\* LLM client is called at most twice: once when round 1 fails or answers
\* with no tool call, twice when round 1 answers with at least one tool
\* call. The repository never receives more Searches than round 1 returned
\* tool calls.
C17_Terminates ==
    /\ (pc # "idle") ~> (pc = "done")
    /\ [](pc = "done" =>
            /\ result.returned
            /\ (Len(result.resp) = 1) # (result.err # Nil)
            /\ Len(result.resp) <= 1)
    /\ [](/\ Len(llmCalls) <= 2
          /\ (pc = "done" /\ Round1Failed) => Len(llmCalls) = 1
          /\ (pc = "done" /\ Round1Answered /\ Len(Round1ToolCalls) = 0) =>
                Len(llmCalls) = 1
          /\ (pc = "done" /\ Round1Answered /\ Len(Round1ToolCalls) >= 1) =>
                Len(llmCalls) = 2
          /\ IF Round1Answered
             THEN Len(searchCalls) <= Len(Round1ToolCalls)
             ELSE searchCalls = <<>>)

C17_Witness ==
    /\ pc = "done"
    /\ Len(llmCalls) = 2
    /\ Len(searchCalls) = 2
    /\ Len(Round1ToolCalls) = 2
    /\ result.err # Nil

\* the document meets the limits: a title of 1 to 200 bytes and a content
\* of 1 to 10000 bytes
WithinLimits(d) ==
    /\ Len(d.Title) \in 1..200
    /\ Len(d.Content) \in 1..10000

\* the fields of the document that break a limit
Offending(d) ==
    {f \in {"title"} : Len(d.Title) \notin 1..200} \cup
    {f \in {"content"} : Len(d.Content) \notin 1..10000}

\* C13: once AddDocument has run on a document, Insert was called (once,
\* with that title and content) if and only if the title has 1 to 200
\* one-byte characters and the content 1 to 10000; for every other document
\* AddDocument has returned a validation error whose field is a field that
\* breaks its limit, and Insert was not called.
C13_InsertOnlyValid ==
    (pc # "idle" /\ ~doc.isNil) =>
        /\ WithinLimits(doc) =>
              /\ Len(inserts) = 1
              /\ ~inserts[1].doc.isNil
              /\ inserts[1].doc.Title = doc.Title
              /\ inserts[1].doc.Content = doc.Content
        /\ ~WithinLimits(doc) =>
              /\ inserts = <<>>
              /\ pc = "done"
              /\ result.returned
              /\ \E f \in Offending(doc) :
                    result.err = NewValidationError(f)

C13_Witness ==
    /\ pc = "done"
    /\ ~doc.isNil
    /\ Len(doc.Title) = 250
    /\ Len(doc.Content) = 10000
    /\ result.err = NewValidationError("title")
    /\ inserts = <<>>

\* a probe was made and reported no error
Healthy(probe) == probe.issued /\ probe.returned /\ probe.err = Nil

\* a probe was made and reported an error
Unhealthy(probe) == probe.issued /\ probe.returned /\ probe.err # Nil

\* C12: in every HealthCheck the LLM client is probed only after the
\* repository's probe has succeeded. A HealthCheck that has returned gave no
\* error if and only if both probes succeeded; after a failed repository
\* probe it failed with that failure as its cause and the LLM client was
\* not probed; after a failed LLM probe it failed with an error that names
\* the LLM client and has that failure as its cause. The LLM client has
\* received one call per LLM probe. This holds for every one of the
\* HealthChecks made one after the other.
C12_HealthCheckOrder ==
    /\ \A i \in 1..Len(health) :
          LET h == health[i]
          IN /\ h.llm.issued => Healthy(h.store)
             /\ h.returned =>
                   /\ (h.err = Nil) <=> (Healthy(h.store) /\ Healthy(h.llm))
                   /\ Unhealthy(h.store) =>
                         /\ ~h.llm.issued
                         /\ h.err # Nil
                         /\ h.err[1] = "repositório indisponível"
                         /\ Tail(h.err) = h.store.err
                   /\ Unhealthy(h.llm) =>
                         /\ h.err # Nil
                         /\ h.err[1] = "cliente LLM indisponível"
                         /\ Tail(h.err) = h.llm.err
             /\ (i = Len(health) /\ pc = "done") =>
                   /\ h.returned
                   /\ result.err = h.err
    /\ Len(llmCalls) =
          Cardinality({i \in 1..Len(health) : health[i].llm.issued})

C12_Witness ==
    /\ pc = "done"
    /\ Len(health) = MaxHealthChecks
    /\ \A i \in 1..Len(health) :
          /\ Healthy(health[i].store)
          /\ Healthy(health[i].llm)
          /\ health[i].err = Nil
    /\ result.err = Nil

\* C16: IsTemporaryError answers true exactly for the errors whose innermost
\* error is the repository timeout, the LLM timeout or the generic
\* service-unavailable kind, under any number of wrapping layers, and false
\* for every other kind, wrapped or not.
C16_TemporaryKinds ==
    pc = "done" =>
        (temporary <=>
            cause.kind \in {ErrRepositoryTimeout, ErrLLMTimeout,
                            ErrServiceUnavailable})

C16_Witness ==
    /\ pc = "done"
    /\ cause.kind = ErrServiceUnavailable
    /\ Len(cause.wraps) = MaxWrapDepth
    /\ Len(result.err) = MaxWrapDepth + 1
    /\ temporary

\* a message without its timestamp
Bare(m) == [Role |-> m.Role, Content |-> m.Content, ToolCall |-> m.ToolCall,
            ToolID |-> m.ToolID]

BareSeq(ms) == [i \in 1..Len(ms) |-> Bare(ms[i])]

\* what an invocation running alone produces from its request and from the
\* replies to its own calls: the transcript given to each round, the
\* arguments of each Search, and what it returns
OwnOutputs(inv) ==
    LET calls == inv.llmCalls
        searches == inv.searchCalls
        user == [Role |-> "user", Content |-> inv.req.Query,
                 ToolCall |-> "", ToolID |-> ""]
        answered == Len(calls) >= 1 /\ calls[1].returned /\ calls[1].err = Nil
        tcs == calls[1].resp[1].ToolCalls
        found(k) == IF searches[k].err # Nil THEN EmptySlice
                    ELSE searches[k].docs
        toolMsg(k) == [Role |-> "tool", Content |-> Marshal(found(k)),
                       ToolCall |-> SearchToolName,
                       ToolID |-> tcs[searches[k].toolCall].ID]
        last == calls[Len(calls)]
    IN /\ inv.pc # "idle" => Len(calls) >= 1
       /\ Len(calls) >= 1 => BareSeq(calls[1].messages) = <<user>>
       /\ searches # <<>> => answered
       /\ \A k \in 1..Len(searches) :
             /\ searches[k].toolCall \in 1..Len(tcs)
             /\ searches[k].query = AskedQuery(tcs[searches[k].toolCall])
             /\ searches[k].limit = inv.req.MaxResults
       /\ Len(calls) = 2 =>
             BareSeq(calls[2].messages) =
                <<user, [Role |-> "assistant",
                         Content |-> calls[1].resp[1].Content,
                         ToolCall |-> "", ToolID |-> ""]>>
                \o [k \in 1..Len(searches) |-> toolMsg(k)]
       /\ inv.pc = "done" =>
             /\ inv.result.returned
             /\ last.returned
             /\ IF last.err # Nil
                THEN /\ inv.result.resp = <<>>
                     /\ Tail(inv.result.err) = last.err
                ELSE /\ inv.result.err = Nil
                     /\ Len(inv.result.resp) = 1
                     /\ inv.result.resp[1].Query = inv.req.Query
                     /\ inv.result.resp[1].Answer = last.resp[1].Content
                     /\ inv.result.resp[1].Model = last.resp[1].Model
                     /\ inv.result.resp[1].TokensUsed = last.resp[1].TokensUsed
                     /\ inv.result.resp[1].SearchPerformed = (Len(tcs) > 0)
                     /\ inv.result.resp[1].Sources =
                            IF searches = <<>> THEN NilSlice
                            ELSE found(Len(searches))

\* C11: with two invocations of ProcessQuery interleaved in any way on the
\* same orchestrator, on distinct requests, the transcripts each one gives
\* to the LLM client, the arguments of its Searches and what it returns are
\* those it produces alone from its own request and from the replies to its
\* own calls; the running invocation never sees the sources, the transcript
\* or the request of the other one.
C11_InvocationsIndependent ==
    /\ OwnOutputs(Running)
    /\ OwnOutputs(other)
    /\ req.Query # other.req.Query
    /\ sources.docs # <<>> =>
          \E k \in 1..Len(searchCalls) :
              /\ searchCalls[k].returned
              /\ \A j \in 1..Len(searchCalls) :
                    searchCalls[j].returned => j <= k
              /\ sources = searchCalls[k].docs

C11_Witness ==
    /\ pc = "round2"
    /\ sources = Slice(<<"golang-1">>)
    /\ other.pc = "round2"
    /\ other.sources = EmptySlice
    /\ Len(other.searchCalls) = 1
    /\ other.searchCalls[1].query = "rust"
    /\ other.searchCalls[1].err # Nil

\* s is a prefix of t
IsPrefix(s, t) == Len(s) <= Len(t) /\ SubSeq(t, 1, Len(s)) = s

\* C21: the transcript of an invocation is append-only. Every step leaves
\* the messages already in it where they are and as they are, and adds at
\* most one message, at the end; a transcript given to the LLM client is
\* not changed afterwards and stays a prefix of the transcript; the
\* transcript given to round 2 extends the one given to round 1.
C21_TranscriptAppendOnly ==
    /\ [][/\ IsPrefix(messages, messages')
          /\ Len(messages') <= Len(messages) + 1
          /\ \A k \in 1..Len(llmCalls) :
                llmCalls'[k].messages = llmCalls[k].messages]_vars
    /\ [](\A k \in 1..Len(llmCalls) : IsPrefix(llmCalls[k].messages, messages))
    /\ [](Len(llmCalls) = 2 =>
            /\ IsPrefix(llmCalls[1].messages, llmCalls[2].messages)
            /\ Len(llmCalls[2].messages) > Len(llmCalls[1].messages))

C21_Witness ==
    /\ pc = "round2"
    /\ Len(messages) = 4
    /\ Len(llmCalls[1].messages) = 1
    /\ llmCalls[2].messages = messages
    /\ messages[1] = llmCalls[1].messages[1]
    /\ messages[4].Role = "tool"

\* the tool name and the tool-call id of a message are both present or both
\* absent
Paired(m) == (m.ToolCall = "") <=> (m.ToolID = "")

\* the transcripts the orchestrator has built: those given to the LLM
\* client and the current one
Transcripts == {llmCalls[k].messages : k \in 1..Len(llmCalls)} \cup {messages}

\* C22: every message of every transcript has its tool name and its
\* tool-call id both present or both absent, whatever round 1 answered;
\* user and assistant messages carry neither, a tool message carries both.
C22_ToolNameAndIDPaired ==
    \A t \in Transcripts :
        \A i \in 1..Len(t) :
            /\ Paired(t[i])
            /\ t[i].Role \in {"user", "assistant"} =>
                  (t[i].ToolCall = "" /\ t[i].ToolID = "")
            /\ t[i].Role = "tool" =>
                  (t[i].ToolCall # "" /\ t[i].ToolID # "")

\* the request the LLM client sends upstream for the k-th call it received
Upstream(k) == ChatCompletionRequest(llmCalls[k].messages, llmCalls[k].tools)

\* C23: round 1 is called with exactly one declared tool, search_metadata,
\* whose only parameter is the required string "query", and the request
\* sent upstream declares that tool; round 2 is called with no tool and the
\* request sent upstream declares none.
C23_ToolsPerRound ==
   [](/\ Len(llmCalls) >= 1 =>
            LET tools == llmCalls[1].tools
            IN /\ Len(tools) = 1
               /\ tools[1].Name = "search_metadata"
               /\ tools[1].Parameters.type = "object"
               /\ DOMAIN tools[1].Parameters.properties = {"query"}
               /\ tools[1].Parameters.properties.query.type = "string"
               /\ tools[1].Parameters.required = <<"query">>
               /\ Len(Upstream(1).Tools) = 1
               /\ Upstream(1).Tools[1].Function.Name = "search_metadata"
               /\ Upstream(1).Tools[1].Function.Parameters = tools[1].Parameters
      /\ Len(llmCalls) = 2 =>
            /\ llmCalls[2].tools = <<>>
            /\ Upstream(2).Tools = <<>>
      /\ Len(llmCalls) <= 2)

C23_Witness ==
    /\ pc = "round2"
    /\ Len(llmCalls) = 2
    /\ Len(Upstream(1).Tools) = 1
    /\ Upstream(2).Tools = <<>>
    /\ Len(Upstream(2).Messages) = 3
    /\ Upstream(2).Messages[3].Role = "tool"
    /\ Upstream(2).Messages[3].ToolCallID = "call_1"

\* C24: when round 2 has run and succeeded, ProcessQuery has returned a
\* response whose answer, tokens-used and model are those of the round-2
\* LLM response, whatever round 1 answered; the query echoed by a response
\* is the query of the request, the one round 1 was asked.
C24_Round2Overwrites ==
   [](/\ Round2Answered =>
            /\ pc = "done"
            /\ result.err = Nil
            /\ Len(result.resp) = 1
            /\ result.resp[1].Answer = llmCalls[2].resp[1].Content
            /\ result.resp[1].TokensUsed = llmCalls[2].resp[1].TokensUsed
            /\ result.resp[1].Model = llmCalls[2].resp[1].Model
      /\ Responded =>
            /\ result.resp[1].Query = req.Query
            /\ result.resp[1].Query = llmCalls[1].messages[1].Content)

C24_Witness ==
    /\ Round2Answered
    /\ llmCalls[1].resp[1].Content = "answer-1"
    /\ llmCalls[1].resp[1].TokensUsed = 10
    /\ llmCalls[1].resp[1].Model = "gpt-4"
    /\ result.resp[1].Answer = "answer-2"
    /\ result.resp[1].TokensUsed = 25
    /\ result.resp[1].Model = "gpt-4o"
    /\ result.resp[1].Query = "qqq"

\* round 1 answered with at least one tool call named search_metadata
NamesSearchTool ==
    \E i \in 1..Len(Round1ToolCalls) :
        Round1ToolCalls[i].Name = SearchToolName

\* C25: the search_performed flag of a response is true if and only if
\* round 1 answered with at least one tool call named search_metadata,
\* whether or not any Search was issued; after a round 1 with tool calls,
\* of whatever names, the response is that of round 2.
C25_SearchPerformedIffNamed ==
   [](Responded =>
          /\ Round1Answered
          /\ result.resp[1].SearchPerformed <=> NamesSearchTool
          /\ Len(Round1ToolCalls) > 0 => Round2Answered
          /\ (searchCalls # <<>>) => result.resp[1].SearchPerformed)

C25_Witness ==
    /\ Responded
    /\ Len(Round1ToolCalls) = 2
    /\ Round1ToolCalls[1].Name = "get_weather"
    /\ Round1ToolCalls[2].Name = "get_weather"
    /\ ~result.resp[1].SearchPerformed
    /\ Round2Answered
    /\ searchCalls = <<>>

\* C26: the transcript given to round 1 is the single user message with
\* the request's query. The transcript given to round 2 is that user
\* message, then one assistant message with the content of round 1, then
\* one tool message for each search_metadata tool call whose arguments
\* parse and hold a string query, in the order of the tool calls, each
\* with the name and the id of its call, and nothing else: a call that is
\* skipped or is of another tool has no message.
C26_ExactTranscripts ==
   [](LET user == [Role |-> "user", Content |-> req.Query,
                   ToolCall |-> "", ToolID |-> ""]
      IN /\ Len(llmCalls) >= 1 => BareSeq(llmCalls[1].messages) = <<user>>
         /\ Len(llmCalls) = 2 =>
               LET reaching == SelectSeq(Round1ToolCalls, AsksSearch)
                   given == BareSeq(llmCalls[2].messages)
               IN /\ Len(given) = 2 + Len(reaching)
                  /\ given[1] = user
                  /\ given[2] = [Role |-> "assistant",
                                 Content |-> llmCalls[1].resp[1].Content,
                                 ToolCall |-> "", ToolID |-> ""]
                  /\ \A j \in 1..Len(reaching) :
                        /\ given[2 + j].Role = "tool"
                        /\ given[2 + j].ToolCall = reaching[j].Name
                        /\ given[2 + j].ToolID = reaching[j].ID)

C26_Witness ==
    /\ pc = "round2"
    /\ Len(Round1ToolCalls) = 2
    /\ Round1ToolCalls[1].Name = "get_weather"
    /\ Round1ToolCalls[2].Arguments = ArgsEmptyQuery
    /\ Len(llmCalls[2].messages) = 3
    /\ llmCalls[2].messages[3].ToolID = Round1ToolCalls[2].ID
    /\ \A i \in 1..3 : llmCalls[2].messages[i].ToolID # Round1ToolCalls[1].ID

\* C27: when ProcessQuery returns a validation error it leaves the request
\* as it was given. The only change ever made to the request is the
\* replacement of a non-positive max-results by the configured default, in
\* the step that passes validation and calls round 1.
C27_RejectedRequestUnchanged ==
    /\ [][(pc = "idle" /\ pc' = "done") =>
            /\ req' = req
            /\ result'.err # Nil
            /\ result'.resp = <<>>
            /\ llmCalls' = <<>>]_vars
    /\ [][req' # req =>
            /\ pc = "idle"
            /\ pc' = "round1"
            /\ req.MaxResults <= 0
            /\ req' = [req EXCEPT !.MaxResults = MaxSearchResults]]_vars

C27_Witness ==
    /\ pc = "done"
    /\ llmCalls = <<>>
    /\ result.err = ErrQueryTooShort
    /\ Len(req.Query) = 1
    /\ req.MaxResults = -1

\* the loop is at a search_metadata tool call whose query is the empty
\* string
AtEmptyQuery ==
    /\ pc = "tools"
    /\ idx <= Len(Round1ToolCalls)
    /\ AsksSearch(Round1ToolCalls[idx])
    /\ AskedQuery(Round1ToolCalls[idx]) = ""

\* C28: a search_metadata tool call whose query is the empty string never
\* reaches the repository. The step that handles it issues no Search,
\* replaces the sources recorded so far by the empty (non-nil) result set,
\* appends a tool message holding "[]" with the name and id of the call,
\* and moves to the next tool call without returning; no Search the
\* repository receives has an empty query, and the tool calls after it are
\* still searched before round 2.
C28_EmptyQueryHandledLocally ==
    /\ [][AtEmptyQuery =>
            /\ searchCalls' = searchCalls
            /\ sources' = EmptySlice
            /\ BareSeq(messages') =
                  Append(BareSeq(messages),
                         [Role |-> "tool", Content |-> "[]",
                          ToolCall |-> SearchToolName,
                          ToolID |-> Round1ToolCalls[idx].ID])
            /\ idx' = idx + 1
            /\ pc' = "tools"
            /\ result' = result]_vars
    /\ [](\A k \in 1..Len(searchCalls) :
            /\ searchCalls[k].query # ""
            /\ AskedQuery(Round1ToolCalls[searchCalls[k].toolCall]) # "")
    /\ [](Len(llmCalls) = 2 =>
            \A i \in 1..Len(Round1ToolCalls) :
                (AsksSearch(Round1ToolCalls[i])
                   /\ AskedQuery(Round1ToolCalls[i]) # "") =>
                    \E k \in 1..Len(searchCalls) : searchCalls[k].toolCall = i)

C28_Witness ==
    /\ pc = "tools"
    /\ idx = 3
    /\ Round1ToolCalls[1].Arguments = ArgsGolang
    /\ Round1ToolCalls[2].Arguments = ArgsEmptyQuery
    /\ Len(searchCalls) = 1
    /\ searchCalls[1].docs = Slice(<<"golang-1">>)
    /\ sources = EmptySlice
    /\ Len(messages) = 4
    /\ messages[4].Content = "[]"
    /\ messages[4].ToolID = "call_2"

\* C29: with a positive configured default, every Search the repository
\* receives has a non-empty query and a positive limit, whether it comes
\* from the tool-call loop of ProcessQuery, for any request and any round-1
\* answer, or from a direct call of SearchDocuments with any query and any
\* limit.
C29_SearchArgumentsValid ==
    MaxSearchResults > 0 =>
        \A k \in 1..Len(searchCalls) :
            /\ searchCalls[k].query # ""
            /\ searchCalls[k].limit > 0

C29_Witness ==
    /\ pc = "done"
    /\ llmCalls = <<>>
    /\ Len(searchCalls) = 1
    /\ searchCalls[1].toolCall = 0
    /\ searchCalls[1].query = "golang"
    /\ searchCalls[1].limit = MaxSearchResults
    /\ MaxSearchResults \notin DirectLimits
    /\ result.resp = <<Slice(<<"golang-1">>)>>

\* the k-th Search was ended by the caller's context while it was in
\* flight: the caller cancelled after the Search was issued, or the
\* caller's deadline, ahead when the Search was issued, passed
CallerEndedDuring(k) ==
    /\ searchCalls[k].returned
    /\ \/ /\ ErrorsIs(searchCalls[k].err, <<"context.Canceled">>)
          /\ ~searchCalls[k].ctx.cancelled
       \/ /\ ErrorsIs(searchCalls[k].err, <<"context.DeadlineExceeded">>)
          /\ ctx.hasDeadline
          /\ searchCalls[k].ctx.deadline = ctx.deadline
          /\ searchCalls[k].at < ctx.deadline

\* C30: when the caller's context is cancelled or expires while a Search
\* is in flight, the return of that Search does not end ProcessQuery: the
\* sources become the empty list and the loop moves on. From then on the
\* sources stay empty, every later tool call with a non-empty query is
\* still searched (and fails), round 2 is called with the caller's context,
\* already done, and ProcessQuery returns no response and the round-2
\* error, whose cause is the context's error, not a retrieval error.
C30_CancelledSearchGoesOn ==
    /\ [][(pc = "search" /\ Done(ctx, now)) =>
            /\ pc' = "tools"
            /\ idx' = idx + 1
            /\ sources' = EmptySlice
            /\ result' = result
            /\ IsContextError(searchCalls'[Len(searchCalls)].err)]_vars
    /\ []((\E k \in 1..Len(searchCalls) : CallerEndedDuring(k)) =>
            /\ Done(ctx, now)
            /\ sources = EmptySlice
            /\ \A k \in 1..Len(searchCalls) :
                  (CallerEndedDuring(k) /\ k < Len(searchCalls)) =>
                      \A j \in (k + 1)..Len(searchCalls) :
                          searchCalls[j].returned =>
                              IsContextError(searchCalls[j].err)
            /\ Len(llmCalls) = 2 =>
                  /\ llmCalls[2].ctx = ctx
                  /\ Done(llmCalls[2].ctx, llmCalls[2].at)
                  /\ \A i \in 1..Len(Round1ToolCalls) :
                        (AsksSearch(Round1ToolCalls[i])
                           /\ AskedQuery(Round1ToolCalls[i]) # "") =>
                            \E k \in 1..Len(searchCalls) :
                                searchCalls[k].toolCall = i
            /\ pc = "done" =>
                  /\ Round2Failed
                  /\ result.resp = <<>>
                  /\ result.err =
                        Wrap("erro ao gerar resposta final",
                             Wrap("erro na chamada OpenAI", CtxErr(ctx)))
                  /\ ~ErrorsIs(result.err, <<"erro na busca de documentos">>))

C30_Witness ==
    /\ pc = "done"
    /\ Len(searchCalls) = 2
    /\ CallerEndedDuring(1)
    /\ ErrorsIs(searchCalls[1].err, <<"context.Canceled">>)
    /\ searchCalls[2].ctx.cancelled
    /\ IsContextError(searchCalls[2].err)
    /\ sources = EmptySlice
    /\ Round2Failed
    /\ ErrorsIs(result.err, <<"context.Canceled">>)

====
